---- MODULE Spec2Model ----
(***************************************************************************)
(* Model of the Debouncer of romdo/go-debounce (src/debouncer.go).         *)
(*                                                                         *)
(* Every method of the Debouncer holds d.mux for its whole body, so each   *)
(* method is one atomic action.  The two time.AfterFunc timers are         *)
(* modelled by their deadline; at the deadline the Go runtime starts the   *)
(* timer function on its own goroutine (action Expire), and that goroutine *)
(* then waits for the mutex before it runs callback (action Callback).     *)
(* Calls, resets and waiting handlers interleave freely at one instant of  *)
(* the clock; the clock advances (Tick) only when no timer is due and no   *)
(* handler is waiting for the mutex.                                       *)
(*                                                                         *)
(* calls, invoked, resets, fresh, burstStart and initFn are history        *)
(* variables: they record what the program did and are never read by it.   *)
(*                                                                         *)
(* mux tells whether the mutex is left locked between two actions, and     *)
(* running counts the executions of the function that were started and     *)
(* have not returned; only SpecRun follows them to their return.           *)
(* entering holds the callers of the Debouncer with an atomic function     *)
(* pointer that have stored their function and not yet taken the mutex;    *)
(* it is empty in every other specification.                               *)
(*                                                                         *)
(* Spec is every Debouncer NewDebouncer can build, driven by Debounce,     *)
(* DebounceWith and Reset.  FairSpec is the debouncer New returns, with    *)
(* the fairness the liveness properties need; SpecRepeat is that debouncer *)
(* under every option, with Reset repeatable.  SingleSpec is the           *)
(* Debouncer with a single timer (it alone has the field firstCall),       *)
(* AtomicSpec the Debouncer with an atomic function pointer, and           *)
(* LegacySpec the closure of the legacy NewMutable (src/mutable.go); they  *)
(* use the variables of the Debouncer they have a counterpart of.          *)
(* SpecMutable is the Debouncer NewMutable builds, which starts with no    *)
(* function bound.                                                         *)
(***************************************************************************)
EXTENDS Integers, Sequences, FiniteSets, TLC

\* ---------------------------------------------------------------- bounds
MaxTime == 5
MaxCalls == 3
MaxResets == 1

\* ------------------------------------------------------------- constants
\* time.Time{} : the zero time, "no call yet" / "never invoked".
ZeroTime == 0
\* First reading of the clock; every real reading is after the zero time.
StartTime == 1
\* A timer that is not armed (stoppedTimer, Timer.Stop).
Stopped == -1
\* Time.Sub saturates at the largest Duration when the operand is time.Time{}.
MaxDuration == 1000000
\* A nil func().
Nil == 0

\* ---------------------------------------------------------------- inputs
\* Every DebounceWith call with a function passes a closure of its own: the
\* k-th call passes function k.
Fns == 1..MaxCalls
\* The function given to NewDebouncer by New.
F0 == MaxCalls + 1
\* The f argument of NewDebouncer: nil (NewMutable) or a function (New).
InitFns == {Nil, F0}
\* wait argument of NewDebouncer.
WaitVals == {-1, 0, 2}
\* Argument of WithMaxWait (0: option not given; 2: not above wait; 3: above).
MaxWaitVals == {-1, 0, 2, 3}
TimerIds == {"timer", "maxTimer"}

VARIABLES wait, leading, trailing, maxWait, fn, dirty, lastCall, lastInvoke, timer, maxTimer, now, expired, calls, invoked, resets, fresh, burstStart, initFn, mux, firstCall, running, entering

vars == <<wait, leading, trailing, maxWait, fn, dirty, lastCall, lastInvoke, timer, maxTimer, now, expired, calls, invoked, resets, fresh, burstStart, initFn, mux, firstCall, running, entering>>

config == <<wait, leading, trailing, maxWait, initFn>>

\* ------------------------------------------------------- pure operators
\* a.Sub(b) for a reading a of the clock.
Sub(a, b) == IF b = ZeroTime THEN MaxDuration ELSE a - b

IsZero(t) == t = ZeroTime

\* Variant: the trailing edge is always enabled.
NormTrailing_Always(l, t) == TRUE

\* NewDebouncer: trailing is the default edge.
NormTrailing(l, t) == IF ~l /\ ~t THEN TRUE ELSE t

\* Variant: only a maxWait below wait is disabled.
NormMaxWait_BelowOnly(w, m) == IF m < w THEN 0 ELSE m

\* NewDebouncer: a maxWait that is not above wait is disabled.
NormMaxWait(w, m) == IF m <= w THEN 0 ELSE m

\* Variant: a nil argument unbinds the function.
NextFn_NilUnbinds(f) == f

\* Variant: a function passed by a call is kept only when none is bound yet.
NextFn_FirstWins(f) == IF f # Nil /\ fn = Nil THEN f ELSE fn

\* DebounceWith: a nil argument leaves the bound function alone.
NextFn(f) == IF f # Nil THEN f ELSE fn

\* Variant: the call dispatches first and binds the function it was passed
\* afterwards.
RunInCall_Previous(f) == fn

\* DebounceWith: d.fn = f comes before the tests, so the invoke made inside
\* the call reads the function the call has just bound.
RunInCall(f) == NextFn(f)

\* Variant: only a negative wait disables debouncing.
Disabled_NegativeOnly == wait < 0

\* DebounceWith: debouncing is disabled.
Disabled == wait <= 0

\* Variant: the leading-edge test has no case for a clock that went back.
ExceededWait_ForwardOnly(t) ==
    \/ IsZero(lastCall)
    \/ (Sub(t, lastCall) >= wait /\ Sub(t, lastInvoke) >= wait)

\* Variant: the leading-edge test looks at the last invocation only.
ExceededWait_InvokeOnly(t) == \/ IsZero(lastCall)
                              \/ Sub(t, lastCall) < 0
                              \/ Sub(t, lastInvoke) < 0
                              \/ Sub(t, lastInvoke) >= wait

\* DebounceWith: the leading-edge test.
ExceededWait(t) == \/ IsZero(lastCall)
                   \/ Sub(t, lastCall) < 0
                   \/ Sub(t, lastInvoke) < 0
                   \/ (Sub(t, lastCall) >= wait /\ Sub(t, lastInvoke) >= wait)

\* Variant: the wait timer is armed by the first call of a burst only.
ArmTimer_FirstCallOnly(t) == IF trailing /\ ~dirty THEN t + wait ELSE timer

\* DebounceWith: d.timer.Reset(d.wait) when trailing is enabled.
ArmTimer(t) == IF trailing THEN t + wait ELSE timer

\* Variant: the max-wait timer is armed whether or not maxWait is set.
ArmMaxTimer_NoTest(t) == IF ~dirty THEN t + maxWait ELSE maxTimer

\* Variant: every call re-arms the max-wait timer.
ArmMaxTimer_EveryCall(t) == IF maxWait > 0 THEN t + maxWait ELSE maxTimer

\* DebounceWith: d.maxTimer.Reset(d.maxWait) at the start of a pending burst.
ArmMaxTimer(t) == IF maxWait > 0 /\ ~dirty THEN t + maxWait ELSE maxTimer

\* Variant: dirty is set only where the max-wait timer is armed.
DirtyAfterCall_WithMaxWaitOnly == dirty \/ maxWait > 0

\* DebounceWith: d.dirty = true on the path that did not invoke.
DirtyAfterCall == TRUE

\* Variant: dirty is set by every call, dispatching or not.
DirtyAfterLeading_Set == TRUE

\* DebounceWith: the path that invoked on the leading edge leaves dirty as
\* it found it.
DirtyAfterLeading == dirty

\* Variant: the handler does not look at dirty.
CallbackFires_Always == TRUE

\* callback: a handler that finds dirty false is stale and does nothing.
CallbackFires == dirty

\* Variant: a function is dispatched only while no execution of it runs.
Dispatches_WhenIdle(f) == f # Nil /\ running = 0

\* Variant: invoke starts whatever is bound, a nil function too.
Dispatches_Unchecked(f) == TRUE

\* invoke: a function is dispatched only if one is bound.
Dispatches(f) == f # Nil

\* Variant: invoke calls f() in place, so the method that dispatches keeps
\* the mutex while the function runs.
LockedAfter_InPlace(inv) == inv

\* invoke: go f() starts the function on a goroutine of its own; the method
\* that dispatches does not wait for it and unlocks the mutex on return.
LockedAfter(inv) == FALSE

\* invoke: go f() adds one running execution of the function, however many
\* are running already.
Started(inv) == IF inv THEN running + 1 ELSE running

\* Variant: every invoke attempt writes lastInvoke, dispatching or not.
InvokeTime_EveryAttempt(inv) == now

\* invoke: d.lastInvoke = now sits inside the test for a bound function, so
\* it is written by an actual dispatch only.
InvokeTime(inv) == IF inv THEN now ELSE lastInvoke

\* The record of one dispatch (go f()).
Invocation(via, f) == [t |-> now, via |-> via, f |-> f, k |-> Len(calls) + (IF via = "call" THEN 1 ELSE 0)]

\* ----------------------------------------------------------------- Init
Init == /\ wait \in WaitVals
        /\ leading \in BOOLEAN
        /\ \E t \in BOOLEAN : trailing = NormTrailing(leading, t)
        /\ \E m \in MaxWaitVals : maxWait = NormMaxWait(wait, m)
        /\ initFn \in InitFns
        /\ fn = initFn
        /\ dirty = FALSE
        /\ lastCall = ZeroTime
        /\ lastInvoke = ZeroTime
        /\ timer = Stopped
        /\ maxTimer = Stopped
        /\ now = StartTime
        /\ expired = [id \in TimerIds |-> 0]
        /\ calls = <<>>
        /\ invoked = <<>>
        /\ resets = 0
        /\ fresh = TRUE
        /\ mux = FALSE
        /\ running = 0
        /\ entering = {}
        /\ firstCall = ZeroTime
        /\ burstStart = Stopped

\* -------------------------------------------------------------- actions
DebounceWith(f) ==
    /\ ~mux
    /\ Len(calls) < MaxCalls
    /\ now <= MaxTime
    /\ LET nfn == NextFn(f)
           hit == ~Disabled /\ leading /\ ExceededWait(now)
           inv == (Disabled \/ hit) /\ Dispatches(RunInCall(f))
           pend == ~Disabled /\ ~hit
       IN /\ fn' = nfn
          /\ lastInvoke' = InvokeTime(inv)
          /\ invoked' = IF inv THEN Append(invoked, Invocation("call", RunInCall(f))) ELSE invoked
          /\ timer' = IF pend THEN ArmTimer(now) ELSE timer
          /\ maxTimer' = IF pend THEN ArmMaxTimer(now) ELSE maxTimer
          /\ dirty' = IF pend THEN DirtyAfterCall ELSE IF hit THEN DirtyAfterLeading ELSE dirty
          /\ lastCall' = IF Disabled THEN lastCall ELSE now
          /\ burstStart' = IF inv THEN Stopped ELSE IF pend /\ ~dirty THEN now ELSE burstStart
          /\ mux' = LockedAfter(inv)
          /\ running' = Started(inv)
    /\ calls' = Append(calls, [t |-> now, f |-> f, fresh |-> fresh])
    /\ fresh' = FALSE
    /\ UNCHANGED <<config, entering, firstCall, now, expired, resets>>

Debounce == DebounceWith(Nil)

\* Variant: Reset runs a pending invocation before it clears the state.
Reset_Flush ==
    /\ ~mux
    /\ resets < MaxResets
    /\ lastCall' = ZeroTime
    /\ lastInvoke' = ZeroTime
    /\ invoked' = IF dirty /\ Dispatches(fn) THEN Append(invoked, Invocation("timer", fn)) ELSE invoked
    /\ dirty' = FALSE
    /\ maxTimer' = Stopped
    /\ timer' = Stopped
    /\ resets' = resets + 1
    /\ fresh' = TRUE
    /\ burstStart' = Stopped
    /\ running' = IF dirty /\ Dispatches(fn) THEN running + 1 ELSE running
    /\ UNCHANGED <<config, entering, firstCall, fn, now, expired, calls, mux>>

\* Variant: Reset cancels the pending invocation and keeps the two times.
Reset_CancelOnly ==
    /\ ~mux
    /\ resets < MaxResets
    /\ dirty' = FALSE
    /\ maxTimer' = Stopped
    /\ timer' = Stopped
    /\ resets' = resets + 1
    /\ fresh' = TRUE
    /\ burstStart' = Stopped
    /\ UNCHANGED <<config, entering, firstCall, fn, lastCall, lastInvoke, now, expired, calls, invoked, mux, running>>

\* Variant: Reset also rebinds the function given to the constructor.
ResetBody_Rebind ==
    /\ lastCall' = ZeroTime
    /\ lastInvoke' = ZeroTime
    /\ dirty' = FALSE
    /\ maxTimer' = Stopped
    /\ timer' = Stopped
    /\ resets' = resets + 1
    /\ fresh' = TRUE
    /\ burstStart' = Stopped
    /\ fn' = initFn
    /\ UNCHANGED <<config, entering, firstCall, now, expired, calls, invoked, mux, running>>

\* Variant: Reset restarts the wait from the time of the Reset.
ResetBody_Restart ==
    /\ lastCall' = now
    /\ lastInvoke' = ZeroTime
    /\ dirty' = FALSE
    /\ maxTimer' = Stopped
    /\ timer' = Stopped
    /\ resets' = resets + 1
    /\ fresh' = TRUE
    /\ burstStart' = Stopped
    /\ UNCHANGED <<config, entering, firstCall, fn, now, expired, calls, invoked, mux, running>>

\* The body of Reset.
ResetBody ==
    /\ lastCall' = ZeroTime
    /\ lastInvoke' = ZeroTime
    /\ dirty' = FALSE
    /\ maxTimer' = Stopped
    /\ timer' = Stopped
    /\ resets' = resets + 1
    /\ fresh' = TRUE
    /\ burstStart' = Stopped
    /\ UNCHANGED <<config, entering, firstCall, fn, now, expired, calls, invoked, mux, running>>

Reset ==
    /\ ~mux
    /\ resets < MaxResets
    /\ ResetBody

\* Reset called once more before any other call: the Resets counted by
\* MaxResets are the ones that follow a call or the construction.
ResetAgain ==
    /\ ~mux
    /\ resets <= MaxResets
    /\ resets > 0
    /\ fresh
    /\ ResetBody

\* The runtime starts the function of a timer whose deadline is reached.
Expire(id) ==
    /\ IF id = "timer" THEN timer # Stopped /\ timer <= now ELSE maxTimer # Stopped /\ maxTimer <= now
    /\ timer' = IF id = "timer" THEN Stopped ELSE timer
    /\ maxTimer' = IF id = "maxTimer" THEN Stopped ELSE maxTimer
    /\ expired' = [expired EXCEPT ![id] = @ + 1]
    /\ UNCHANGED <<config, entering, firstCall, fn, dirty, lastCall, lastInvoke, now, calls, invoked, resets, fresh, burstStart, mux, running>>

\* Variant: callback invokes and returns without clear().
Callback_NoClear(id) ==
    /\ ~mux
    /\ expired[id] > 0
    /\ expired' = [expired EXCEPT ![id] = @ - 1]
    /\ LET inv == CallbackFires /\ Dispatches(fn)
       IN /\ lastInvoke' = InvokeTime(inv)
          /\ invoked' = IF inv THEN Append(invoked, Invocation(id, fn)) ELSE invoked
          /\ burstStart' = IF inv THEN Stopped ELSE burstStart
          /\ mux' = LockedAfter(inv)
          /\ running' = Started(inv)
    /\ UNCHANGED <<config, entering, firstCall, fn, dirty, timer, maxTimer, lastCall, now, calls, resets, fresh>>

\* A started timer function gets the mutex and runs callback.
Callback(id) ==
    /\ ~mux
    /\ expired[id] > 0
    /\ expired' = [expired EXCEPT ![id] = @ - 1]
    /\ LET inv == CallbackFires /\ Dispatches(fn)
       IN /\ lastInvoke' = InvokeTime(inv)
          /\ invoked' = IF inv THEN Append(invoked, Invocation(id, fn)) ELSE invoked
          /\ burstStart' = IF inv THEN Stopped ELSE burstStart
          /\ dirty' = IF CallbackFires THEN FALSE ELSE dirty
          /\ maxTimer' = IF CallbackFires THEN Stopped ELSE maxTimer
          /\ timer' = IF CallbackFires THEN Stopped ELSE timer
          /\ mux' = LockedAfter(inv)
          /\ running' = Started(inv)
    /\ UNCHANGED <<config, entering, firstCall, fn, lastCall, now, calls, resets, fresh>>

\* The clock advances when no timer is due and no handler waits.
Tick ==
    /\ now < MaxTime \/ timer # Stopped \/ maxTimer # Stopped
    /\ timer = Stopped \/ timer > now
    /\ maxTimer = Stopped \/ maxTimer > now
    /\ \A id \in TimerIds : expired[id] = 0
    /\ now' = now + 1
    /\ UNCHANGED <<config, entering, firstCall, fn, dirty, lastCall, lastInvoke, timer, maxTimer, expired, calls, invoked, resets, fresh, burstStart, mux, running>>

DebounceWithSome == \E f \in {Len(calls) + 1} : DebounceWith(f)

ExpireSome == \E id \in TimerIds : Expire(id)

CallbackSome == \E id \in TimerIds : Callback(id)

Next == \/ Debounce
        \/ DebounceWithSome
        \/ Reset
        \/ ExpireSome
        \/ CallbackSome
        \/ Tick

Spec == Init /\ [][Next]_vars

\* The clock keeps running, the runtime starts the function of every due timer,
\* and a started timer function eventually gets the mutex.
Fairness == WF_vars(Tick) /\ WF_vars(ExpireSome) /\ WF_vars(CallbackSome)

\* The debouncer that New builds from a function: its callers hold d.Debounce
\* and d.Reset only, so every call is Debounce().  Here with trailing enabled
\* and wait > 0.
InitNew == Init /\ wait > 0 /\ trailing /\ initFn = F0

NextNew == \/ Debounce
           \/ Reset
           \/ ExpireSome
           \/ CallbackSome
           \/ Tick

FairSpec == InitNew /\ [][NextNew]_vars /\ Fairness

\* A running execution of the function returns.
Return ==
    /\ running > 0
    /\ running' = running - 1
    /\ UNCHANGED <<config, entering, firstCall, fn, dirty, lastCall, lastInvoke, timer, maxTimer, now, expired, calls, invoked, resets, fresh, burstStart, mux>>

\* The debouncer New returns, under every option, with the executions of
\* its function followed to their return.
NextRun == \/ Debounce
           \/ Reset
           \/ ExpireSome
           \/ CallbackSome
           \/ Tick
           \/ Return

InitRun == Init /\ initFn = F0 /\ wait > 0

SpecRun == InitRun /\ [][NextRun]_vars

\* The pair returned by New under any options, with Reset repeatable.
InitOptions == Init /\ initFn = F0

NextRepeat == \/ Debounce
              \/ Reset
              \/ ResetAgain
              \/ ExpireSome
              \/ CallbackSome
              \/ Tick

SpecRepeat == InitOptions /\ [][NextRepeat]_vars

\* The Debouncer with the leading edge enabled and a function given to the
\* constructor, for waits long enough that calls less than wait apart can
\* span maxWait.
LeadingWaitVals == {2, 3}
LeadingMaxWaitVals == {0, 4}

InitLeading ==
    /\ wait \in LeadingWaitVals
    /\ leading = TRUE
    /\ \E t \in BOOLEAN : trailing = NormTrailing(leading, t)
    /\ \E m \in LeadingMaxWaitVals : maxWait = NormMaxWait(wait, m)
    /\ initFn = F0
    /\ fn = initFn
    /\ dirty = FALSE
    /\ firstCall = ZeroTime
    /\ lastCall = ZeroTime
    /\ lastInvoke = ZeroTime
    /\ timer = Stopped
    /\ maxTimer = Stopped
    /\ now = StartTime
    /\ expired = [id \in TimerIds |-> 0]
    /\ calls = <<>>
    /\ invoked = <<>>
    /\ resets = 0
    /\ fresh = TRUE
    /\ burstStart = Stopped
    /\ mux = FALSE
    /\ running = 0
    /\ entering = {}

SpecLeading == InitLeading /\ [][Next]_vars

\* The leading-only debouncer New returns, without max-wait (it arms no
\* timer), read against a clock that may also go back: time.Now() of a
\* later call may be earlier than the recorded lastCall and lastInvoke.
InitClock == InitLeading /\ ~trailing /\ maxWait = 0

ClockBack ==
    /\ now > StartTime
    /\ now' = now - 1
    /\ UNCHANGED <<config, entering, firstCall, fn, dirty, lastCall, lastInvoke, timer, maxTimer, expired, calls, invoked, resets, fresh, burstStart, mux, running>>

NextClock == \/ Debounce
             \/ Reset
             \/ Tick
             \/ ClockBack

SpecClock == InitClock /\ [][NextClock]_vars

\* The Debouncer NewMutable builds: no function is given to NewDebouncer, the
\* callers hold d.DebounceWith and d.Reset and may pass nil.
InitMutable == Init /\ initFn = Nil

SpecMutable == InitMutable /\ [][Next]_vars

\* ------------------------------------------- the single-timer Debouncer
\* The Debouncer that has one timer and checks maxWait inside the calls
\* (firstCall is a field of this variant only; maxTimer is never armed).
SingleWaitVals == {0, 1, 2}
SingleMaxWaitVals == {0, 2, 3}

SingleInit ==
    /\ wait \in SingleWaitVals
    /\ leading \in BOOLEAN
    /\ \E t \in BOOLEAN : trailing = NormTrailing(leading, t)
    /\ \E m \in SingleMaxWaitVals : maxWait = NormMaxWait(wait, m)
    /\ initFn = F0
    /\ fn = initFn
    /\ dirty = FALSE
    /\ firstCall = ZeroTime
    /\ lastCall = ZeroTime
    /\ lastInvoke = ZeroTime
    /\ timer = Stopped
    /\ maxTimer = Stopped
    /\ now = StartTime
    /\ expired = [id \in TimerIds |-> 0]
    /\ calls = <<>>
    /\ invoked = <<>>
    /\ resets = 0
    /\ fresh = TRUE
    /\ burstStart = Stopped
    /\ mux = FALSE
    /\ running = 0
    /\ entering = {}

\* maxWaitOrigin: the first call (recorded here when there is none yet) or
\* the last invocation.
FirstCallAfter(t) == IF IsZero(firstCall) THEN t ELSE firstCall

MaxWaitOrigin(t) == IF IsZero(lastInvoke) THEN FirstCallAfter(t) ELSE lastInvoke

ExceededMaxWait(t) == maxWait > 0 /\ Sub(t, MaxWaitOrigin(t)) >= maxWait

ShouldInvoke(t) == (leading /\ ExceededWait(t)) \/ ExceededMaxWait(t)

SingleDebounceWith(f) ==
    /\ ~mux
    /\ Len(calls) < MaxCalls
    /\ now <= MaxTime
    /\ LET nfn == NextFn(f)
           hit == Disabled \/ ShouldInvoke(now)
           inv == hit /\ Dispatches(nfn)
           pend == ~hit /\ trailing
       IN /\ fn' = nfn
          /\ firstCall' = IF Disabled THEN firstCall ELSE FirstCallAfter(now)
          /\ lastInvoke' = IF inv THEN now ELSE lastInvoke
          /\ invoked' = IF inv THEN Append(invoked, Invocation("call", nfn)) ELSE invoked
          /\ timer' = IF hit THEN Stopped ELSE IF pend THEN now + wait ELSE timer
          /\ dirty' = IF hit THEN FALSE ELSE IF pend THEN TRUE ELSE dirty
          /\ lastCall' = IF Disabled THEN lastCall ELSE now
          /\ burstStart' = IF hit THEN Stopped ELSE IF pend /\ ~dirty THEN now ELSE burstStart
          /\ mux' = LockedAfter(inv)
          /\ running' = Started(inv)
    /\ calls' = Append(calls, [t |-> now, f |-> f, fresh |-> fresh])
    /\ fresh' = FALSE
    /\ UNCHANGED <<config, entering, maxTimer, now, expired, resets>>

SingleDebounce == SingleDebounceWith(Nil)

SingleReset ==
    /\ ~mux
    /\ resets < MaxResets
    /\ firstCall' = ZeroTime
    /\ lastCall' = ZeroTime
    /\ lastInvoke' = ZeroTime
    /\ dirty' = FALSE
    /\ timer' = Stopped
    /\ resets' = resets + 1
    /\ fresh' = TRUE
    /\ burstStart' = Stopped
    /\ UNCHANGED <<config, entering, fn, maxTimer, now, expired, calls, invoked, mux, running>>

\* The started timer function gets the mutex and runs callback.
SingleCallback ==
    /\ ~mux
    /\ expired["timer"] > 0
    /\ expired' = [expired EXCEPT !["timer"] = @ - 1]
    /\ LET inv == dirty /\ Dispatches(fn)
       IN /\ lastInvoke' = IF inv THEN now ELSE lastInvoke
          /\ invoked' = IF inv THEN Append(invoked, Invocation("timer", fn)) ELSE invoked
          /\ burstStart' = IF dirty THEN Stopped ELSE burstStart
          /\ timer' = IF dirty THEN Stopped ELSE timer
          /\ mux' = LockedAfter(inv)
          /\ running' = Started(inv)
    /\ dirty' = FALSE
    /\ UNCHANGED <<config, entering, fn, firstCall, lastCall, maxTimer, now, calls, resets, fresh>>

SingleDebounceWithSome == \E f \in {Len(calls) + 1} : SingleDebounceWith(f)

SingleExpire == Expire("timer")

SingleNext == \/ SingleDebounce
              \/ SingleDebounceWithSome
              \/ SingleReset
              \/ SingleExpire
              \/ SingleCallback
              \/ Tick

SingleSpec == SingleInit /\ [][SingleNext]_vars

\* ------------------------------- the Debouncer with an atomic function
\* The Debouncer that keeps fn in an atomic.Pointer: DebounceWith stores the
\* function it was passed before it takes the mutex, so a call is two steps
\* (the store, then the body under the mutex) and other callers, Reset and
\* timer functions may run between them.  Every caller passes a function.
AtomicInit == Init /\ initFn = Nil

\* d.fn.Store(&f): the caller binds its function and goes on to d.mux.Lock().
AtomicStore(f) ==
    /\ Len(calls) + Cardinality(entering) < MaxCalls
    /\ now <= MaxTime
    /\ f \notin entering
    /\ fn' = f
    /\ entering' = entering \cup {f}
    /\ UNCHANGED <<config, firstCall, dirty, lastCall, lastInvoke, timer, maxTimer, now, expired, calls, invoked, resets, fresh, burstStart, mux, running>>

\* invokeLeading: the leading-edge test, which also looks at maxWait.
InvokeLeading(t) ==
    leading /\ (ExceededWait(t) \/ (maxWait > 0 /\ Sub(t, lastInvoke) >= maxWait))

\* The caller that passed f has the mutex and runs the body of DebounceWith;
\* invoke loads whatever function is stored by now.
AtomicAdmit(f) ==
    /\ ~mux
    /\ f \in entering
    /\ now <= MaxTime
    /\ LET hit == ~Disabled /\ InvokeLeading(now)
           inv == (Disabled \/ hit) /\ Dispatches(fn)
           pend == ~Disabled /\ ~hit /\ trailing
       IN /\ lastInvoke' = InvokeTime(inv)
          /\ invoked' = IF inv THEN Append(invoked, Invocation("call", fn)) ELSE invoked
          /\ timer' = IF pend THEN now + wait ELSE timer
          /\ maxTimer' = IF pend /\ maxWait > 0 /\ ~dirty THEN now + maxWait ELSE maxTimer
          /\ dirty' = IF pend THEN TRUE ELSE dirty
          /\ lastCall' = IF Disabled THEN lastCall ELSE now
          /\ burstStart' = IF inv THEN Stopped ELSE IF pend /\ ~dirty THEN now ELSE burstStart
          /\ mux' = LockedAfter(inv)
          /\ running' = Started(inv)
    /\ calls' = Append(calls, [t |-> now, f |-> f, fresh |-> fresh])
    /\ fresh' = FALSE
    /\ entering' = entering \ {f}
    /\ UNCHANGED <<config, firstCall, fn, now, expired, resets>>

\* The n-th caller passes function n.
AtomicStoreSome == \E f \in {Len(calls) + Cardinality(entering) + 1} : AtomicStore(f)

AtomicAdmitSome == \E f \in entering : AtomicAdmit(f)

\* Reset and timerCallback do what Reset and callback of the Debouncer with
\* a plain fn do.
AtomicReset == Reset

AtomicTimerCallback == CallbackSome

AtomicNext == \/ AtomicStoreSome
              \/ AtomicAdmitSome
              \/ AtomicReset
              \/ ExpireSome
              \/ AtomicTimerCallback
              \/ Tick

AtomicSpec == AtomicInit /\ [][AtomicNext]_vars

\* ------------------------------------------------- the legacy NewMutable
\* NewMutable(wait) of mutable.go: a mutex, the last function passed and one
\* timer.  Every call passes a function (go fn() of a nil fn panics); the
\* fields of the Debouncer that the closure does not have keep their initial
\* value.
LegacyWaitVals == {0, 1, 2}

LegacyInit ==
    /\ wait \in LegacyWaitVals
    /\ leading = FALSE
    /\ trailing = TRUE
    /\ maxWait = 0
    /\ initFn = Nil
    /\ fn = Nil
    /\ dirty = FALSE
    /\ firstCall = ZeroTime
    /\ lastCall = ZeroTime
    /\ lastInvoke = ZeroTime
    /\ timer = Stopped
    /\ maxTimer = Stopped
    /\ now = StartTime
    /\ expired = [id \in TimerIds |-> 0]
    /\ calls = <<>>
    /\ invoked = <<>>
    /\ resets = 0
    /\ fresh = TRUE
    /\ burstStart = Stopped
    /\ mux = FALSE
    /\ running = 0
    /\ entering = {}

\* debounced(f): fn = f; timer.Reset(wait).
LegacyDebounced(f) ==
    /\ ~mux
    /\ Len(calls) < MaxCalls
    /\ now <= MaxTime
    /\ fn' = f
    /\ timer' = now + wait
    /\ calls' = Append(calls, [t |-> now, f |-> f, fresh |-> fresh])
    /\ fresh' = FALSE
    /\ UNCHANGED <<config, entering, firstCall, dirty, lastCall, lastInvoke, maxTimer, now, expired, invoked, resets, burstStart, mux, running>>

\* cancel(): timer.Stop().
LegacyCancel ==
    /\ ~mux
    /\ resets < MaxResets
    /\ timer' = Stopped
    /\ resets' = resets + 1
    /\ fresh' = TRUE
    /\ UNCHANGED <<config, entering, firstCall, fn, dirty, lastCall, lastInvoke, maxTimer, now, expired, calls, invoked, burstStart, mux, running>>

\* The record of a dispatch by the timer function; fresh tells that no call
\* was made since construction or the last cancel.
LegacyInvocation == [t |-> now, via |-> "timer", f |-> fn, k |-> Len(calls), fresh |-> fresh]

\* The started timer function gets the mutex: go fn().
LegacyCallback ==
    /\ ~mux
    /\ expired["timer"] > 0
    /\ expired' = [expired EXCEPT !["timer"] = @ - 1]
    /\ invoked' = Append(invoked, LegacyInvocation)
    /\ mux' = LockedAfter(TRUE)
    /\ running' = Started(TRUE)
    /\ UNCHANGED <<config, entering, firstCall, fn, dirty, lastCall, lastInvoke, timer, maxTimer, now, calls, resets, fresh, burstStart>>

LegacyDebouncedSome == \E f \in {Len(calls) + 1} : LegacyDebounced(f)

LegacyExpire == Expire("timer")

LegacyNext == \/ LegacyDebouncedSome
              \/ LegacyCancel
              \/ LegacyExpire
              \/ LegacyCallback
              \/ Tick

LegacySpec == LegacyInit /\ [][LegacyNext]_vars

\* The same closure with callers that may also pass nil: debounced(nil)
\* stores the nil and arms the timer like any other call.
LegacyDebouncedNil == LegacyDebounced(Nil)

LegacyNilNext == \/ LegacyDebouncedSome
                 \/ LegacyDebouncedNil
                 \/ LegacyCancel
                 \/ LegacyExpire
                 \/ LegacyCallback
                 \/ Tick

LegacyNilSpec == LegacyInit /\ [][LegacyNilNext]_vars

TypeOK == /\ wait \in WaitVals
          /\ dirty \in BOOLEAN
          /\ mux \in BOOLEAN
          /\ running \in 0..MaxCalls + 1
          /\ fn \in Fns \cup InitFns
          /\ Len(calls) <= MaxCalls
          /\ now <= MaxTime + 3
          /\ \A id \in TimerIds : expired[id] \in 0..1

\* ------------------------------------------------- reading the history
\* The function bound after the k-th call according to the calls made: the
\* last function passed, or the one given at construction.
RECURSIVE LastSupplied(_)
LastSupplied(k) == IF k = 0 THEN initFn ELSE IF calls[k].f # Nil THEN calls[k].f ELSE LastSupplied(k - 1)

\* A function is bound from the first call on.
ActionBound == calls # <<>> /\ LastSupplied(1) # Nil

\* Time between the k-th call and the one before it.
Gap(k) == calls[k].t - calls[k - 1].t

\* No two consecutive calls are exactly wait apart.
NoGapOfWait == \A k \in 2..Len(calls) : Gap(k) # wait

\* The k-th call is the last of its burst: the next call, if any, comes more
\* than wait later.
BurstLast(k) == k = Len(calls) \/ Gap(k + 1) > wait

\* The k-th call is the first of its burst.
BurstFirst(k) == k = 1 \/ Gap(k) > wait

\* The invocations dispatched after the k-th call and before the next call.
InvokedAt(k) == {i \in DOMAIN invoked : invoked[i].k = k}

\* The invocations dispatched between call a and the call after call b.
InvokedIn(a, b) == {i \in DOMAIN invoked : invoked[i].k \in a..b}

ByTimer(i) == invoked[i].via \in TimerIds

\* The wait that the k-th call started is over: the clock is past call + wait,
\* or at it with the wait timer expired and its handler done.
Settled(k) == \/ now > calls[k].t + wait
              \/ now = calls[k].t + wait /\ timer = Stopped /\ expired["timer"] = 0

\* Calls a..b are a burst: less than wait apart, more than wait from the rest.
Burst(a, b) == a <= b /\ BurstFirst(a) /\ BurstLast(b) /\ \A k \in (a + 1)..b : Gap(k) < wait

\* ------------------------------------------------------------------ C1
TrailingOnly == wait > 0 /\ ~leading /\ trailing /\ maxWait = 0

C1Case == TrailingOnly /\ resets = 0 /\ ActionBound /\ NoGapOfWait

\* C1: trailing only, no max-wait, no Reset, bursts more than wait apart:
\* every invocation is dispatched by the wait timer, wait after the last call
\* of a burst; no burst gets two, and every burst whose last call is more than
\* wait ago has got its one.
C1_BurstCoalescing ==
    C1Case =>
        /\ \A i \in DOMAIN invoked :
              /\ invoked[i].via = "timer"
              /\ BurstLast(invoked[i].k)
              /\ invoked[i].t = calls[invoked[i].k].t + wait
        /\ \A k \in DOMAIN calls : Cardinality(InvokedAt(k)) <= 1
        /\ \A k \in DOMAIN calls :
              (BurstLast(k) /\ Settled(k)) => InvokedAt(k) # {}

\* Two bursts, one of them of several calls, each invoked once.
C1_Witness ==
    /\ C1Case
    /\ Len(invoked) = 2
    /\ \E k \in DOMAIN calls : ~BurstLast(k)

C3_NoDispatchAfterReset ==
    [][(resets > 0 /\ fresh /\ calls' = calls) => invoked' = invoked]_vars

\* Reset has run while an expired handler waits for the mutex with a burst pending.
C3_Witness ==
    /\ resets > 0 /\ fresh
    /\ \E id \in TimerIds : expired[id] > 0
    /\ calls # <<>> /\ InvokedAt(Len(calls)) = {}
    /\ fn # Nil

\* ------------------------------------------------------------------ C4
\* C4: an invocation dispatched by the expiry handler runs the function passed
\* by the latest call that passed one (the constructor's if none did).
C4_LastActionWins ==
    \A i \in DOMAIN invoked : ByTimer(i) => invoked[i].f = LastSupplied(invoked[i].k)

\* The handler ran the third call's function after two other calls of the
\* burst had passed theirs.
C4_Witness ==
    \E i \in DOMAIN invoked :
        /\ ByTimer(i)
        /\ invoked[i].k >= 3
        /\ invoked[i].f = calls[invoked[i].k].f
        /\ \A k \in 1..invoked[i].k : calls[k].f # Nil /\ ~calls[k].fresh = (k > 1)
        /\ InvokedIn(1, invoked[i].k) = {i}

\* ------------------------------------------------------------------ C5
LeadingOnly == wait > 0 /\ leading /\ ~trailing /\ maxWait = 0

\* The k-th call opens a burst for the leading edge: no call since construction
\* or Reset, or the previous call is wait or more ago.
LeadFirst(k) == calls[k].fresh \/ Gap(k) >= wait

\* C5: leading only, no max-wait, a function bound: the invocations are exactly
\* the ones dispatched inside the first call of each burst.
C5_LeadingOnly ==
    (LeadingOnly /\ ActionBound) =>
        /\ \A i \in DOMAIN invoked :
              /\ invoked[i].via = "call"
              /\ invoked[i].t = calls[invoked[i].k].t
              /\ LeadFirst(invoked[i].k)
        /\ \A k \in DOMAIN calls : Cardinality(InvokedAt(k)) = (IF LeadFirst(k) THEN 1 ELSE 0)

\* A burst of three calls is over and only its first call dispatched.
C5_Witness ==
    /\ LeadingOnly /\ ActionBound /\ resets = 0
    /\ Len(calls) = 3 /\ \A k \in 2..3 : Gap(k) < wait
    /\ calls[3].t > calls[1].t
    /\ Len(invoked) = 1
    /\ now > calls[3].t + wait

\* ------------------------------------------------------------------ C6
LeadTrail == wait > 0 /\ leading /\ trailing /\ maxWait = 0

C6Case == LeadTrail /\ resets = 0 /\ ActionBound /\ NoGapOfWait

\* Burst a..b got two invocations: inside call a, and from the wait timer at
\* wait after call b.
LeadAndTrail(a, b) ==
    \E i, j \in DOMAIN invoked :
        /\ InvokedIn(a, b) = {i, j}
        /\ invoked[i].via = "call" /\ invoked[i].k = a
        /\ invoked[j].via = "timer" /\ invoked[j].t = calls[b].t + wait

\* Burst a..b got one invocation, inside call a.
LeadAlone(a, b) ==
    \E i \in DOMAIN invoked : InvokedIn(a, b) = {i} /\ invoked[i].via = "call" /\ invoked[i].k = a

\* Burst a..b got one invocation, from the wait timer at wait after call b.
TrailAlone(a, b) ==
    \E i \in DOMAIN invoked :
        InvokedIn(a, b) = {i} /\ invoked[i].via = "timer" /\ invoked[i].t = calls[b].t + wait

\* Call a comes wait or more after every earlier invocation.
Quiet(a) == \A i \in InvokedIn(1, a - 1) : calls[a].t - invoked[i].t >= wait

\* C6 as stated: leading and trailing, no max-wait, no Reset: every burst of two
\* or more calls gets a leading and a trailing invocation, every single call
\* the leading one alone.
C6_AsStated ==
    C6Case =>
        \A a, b \in DOMAIN calls :
            (Burst(a, b) /\ Settled(b)) => IF a < b THEN LeadAndTrail(a, b) ELSE LeadAlone(a, b)

\* C6 amended: that holds of a burst whose first call comes wait or more after
\* the previous invocation; a burst that starts sooner after the previous
\* burst's trailing invocation gets the trailing invocation alone.
C6_LeadingAndTrailing ==
    C6Case =>
        \A a, b \in DOMAIN calls :
            (Burst(a, b) /\ Settled(b)) =>
                IF ~Quiet(a) THEN TrailAlone(a, b)
                ELSE IF a < b THEN LeadAndTrail(a, b) ELSE LeadAlone(a, b)

\* A burst of two calls got both invocations, and a later single call, less
\* than wait after the trailing one, got the trailing invocation alone.
C6_Witness ==
    /\ C6Case
    /\ Len(calls) = 3
    /\ Burst(1, 2) /\ LeadAndTrail(1, 2)
    /\ Burst(3, 3) /\ ~Quiet(3) /\ Settled(3) /\ TrailAlone(3, 3)

\* ------------------------------------------------------------------ C7
\* The latest call has been followed neither by an invocation nor by a Reset.
Owed == calls # <<>> /\ ~fresh /\ InvokedAt(Len(calls)) = {}

C8_NoDebounce ==
    wait <= 0 =>
        /\ ~dirty /\ timer = Stopped /\ maxTimer = Stopped
        /\ \A id \in TimerIds : expired[id] = 0
        /\ ActionBound =>
              /\ Len(invoked) = Len(calls)
              /\ \A i \in DOMAIN invoked :
                    /\ invoked[i].k = i
                    /\ invoked[i].via = "call"
                    /\ invoked[i].t = calls[i].t
                    /\ invoked[i].f = LastSupplied(i)

\* Three calls in a row within one time unit, with leading, trailing and
\* max-wait all requested, gave three invocations.
C8_Witness ==
    /\ wait = 0 /\ leading /\ trailing /\ maxWait > 0
    /\ Len(calls) = 3 /\ Len(invoked) = 3
    /\ calls[3].t - calls[1].t <= 1

\* ------------------------------------------------------------------ C9
\* C9: a Reset step dispatches nothing.
C9_ResetNeverInvokes == [][resets' # resets => invoked' = invoked]_vars

\* Reset has run on a pending burst whose wait timer was armed and not yet due.
C9_Witness ==
    /\ resets > 0 /\ fresh
    /\ wait > 0 /\ trailing /\ fn # Nil
    /\ \A id \in TimerIds : expired[id] = 0
    /\ calls # <<>> /\ InvokedAt(Len(calls)) = {}
    /\ now < calls[Len(calls)].t + wait

\* ----------------------------------------------------------------- C10
\* C10: a Reset step leaves dirty false, both times zero and both timers
\* stopped; and with leading enabled, wait > 0 and a function bound, the first
\* call after a Reset dispatches inside the call.
C10_ResetRestoresInitial ==
    [][/\ resets' # resets =>
             /\ ~dirty'
             /\ lastCall' = ZeroTime /\ lastInvoke' = ZeroTime
             /\ timer' = Stopped /\ maxTimer' = Stopped
       /\ (resets > 0 /\ fresh /\ wait > 0 /\ leading /\ calls' # calls /\ fn' # Nil) =>
             /\ Len(invoked') = Len(invoked) + 1
             /\ invoked'[Len(invoked')].via = "call"
             /\ invoked'[Len(invoked')].t = now
             /\ timer' = Stopped /\ maxTimer' = Stopped /\ ~dirty']_vars

\* The first call after a Reset dispatched less than wait after the previous
\* invocation and the previous call.
C10_Witness ==
    /\ resets > 0 /\ ~fresh /\ wait > 0 /\ leading
    /\ Len(invoked) >= 2 /\ Len(calls) >= 2
    /\ LET n == Len(invoked)
           k == invoked[n].k
       IN /\ invoked[n].via = "call"
          /\ k > 1 /\ calls[k].fresh
          /\ invoked[n].t - invoked[n - 1].t < wait
          /\ Gap(k) < wait

----------------------------------------------------------------------------
\* C11: Reset is idempotent. A Reset of a debouncer that was never called,
\* or that was not called since the previous Reset, changes nothing: the
\* bound function, the pending flag, both recorded times and both timers
\* keep their values and nothing is dispatched.
C11_ResetIdempotent ==
    [][(resets' # resets /\ fresh) =>
          /\ <<fn, dirty, lastCall, lastInvoke, timer, maxTimer>>' =
                <<fn, dirty, lastCall, lastInvoke, timer, maxTimer>>
          /\ config' = config
          /\ invoked' = invoked]_vars

\* Two consecutive Resets after a burst that dispatched.
C11_Witness ==
    /\ resets = MaxResets + 1
    /\ fresh
    /\ invoked # <<>>

----------------------------------------------------------------------------
\* C12: Reset leaves the configuration (wait, leading, trailing, maxWait)
\* and the bound function unchanged; it writes dirty, lastCall, lastInvoke
\* and the two timers only.
C12_ResetFrame ==
    [][(resets' # resets) =>
          /\ <<wait, leading, trailing, maxWait>>' =
                <<wait, leading, trailing, maxWait>>
          /\ fn' = fn
          /\ ~dirty'
          /\ lastCall' = ZeroTime
          /\ lastInvoke' = ZeroTime
          /\ timer' = Stopped
          /\ maxTimer' = Stopped]_vars

\* A Reset of a debouncer whose function was replaced by a call and that
\* had something to clear.
C12_Witness ==
    /\ resets > 0
    /\ fresh
    /\ fn \in Fns
    /\ fn # initFn
    /\ maxWait > 0
    /\ leading
    /\ invoked # <<>>

----------------------------------------------------------------------------
\* C13: DebounceWith(nil), and so Debounce(), never changes the bound
\* function: what the call or a later handler dispatches is the function
\* that was bound before the call.
C13_NilKeepsFn ==
    [][(Len(calls') = Len(calls) + 1 /\ calls'[Len(calls')].f = Nil) =>
          /\ fn' = fn
          /\ invoked' # invoked =>
                invoked'[Len(invoked')].f = fn]_vars

\* A function bound by one call is dispatched for a later call that
\* passed nil.
C13_Witness ==
    \E k \in 2..Len(calls) : \E i \in 1..Len(invoked) :
        /\ calls[k].f = Nil
        /\ calls[k - 1].f # Nil
        /\ invoked[i].k = k
        /\ invoked[i].f = calls[k - 1].f
        /\ invoked[i].f # initFn

----------------------------------------------------------------------------
\* C14: a debouncer constructed with maxWait <= wait (zero and negative
\* included) is the debouncer constructed without max-wait: the constructor
\* stores maxWait 0, as it does for no max-wait, so a stored maxWait other
\* than 0 is above wait; and with maxWait 0 the max-wait timer is never
\* armed and never expires, so that only calls and the wait timer dispatch.
C14_MaxWaitNormalised ==
    /\ \A w \in WaitVals : \A m \in MaxWaitVals :
          m <= w => NormMaxWait(w, m) = NormMaxWait(w, 0)
    /\ maxWait # 0 => maxWait > wait
    /\ maxWait = 0 =>
          /\ maxTimer = Stopped
          /\ expired["maxTimer"] = 0
          /\ \A i \in DOMAIN invoked : invoked[i].via # "maxTimer"

\* Without max-wait a burst is invoked for the first time later than wait
\* after its first call.
C14_Witness ==
    /\ wait > 0
    /\ maxWait = 0
    /\ ~leading
    /\ resets = 0
    /\ Len(calls) >= 2
    /\ invoked # <<>>
    /\ invoked[1].via = "timer"
    /\ invoked[1].t - calls[1].t > wait

----------------------------------------------------------------------------
\* C15: after construction at least one edge is enabled: with neither edge
\* requested trailing is forced on, with leading alone requested trailing
\* stays off, and a requested trailing edge stays on (leading is stored as
\* requested).
C15_EdgeEnabled ==
    /\ leading \/ trailing
    /\ NormTrailing(FALSE, FALSE)
    /\ ~NormTrailing(TRUE, FALSE)
    /\ \A l \in BOOLEAN : NormTrailing(l, TRUE)

\* A leading-only debouncer at work: two calls, the first one invoked, and
\* no timer armed for the second.
C15_Witness ==
    /\ leading
    /\ ~trailing
    /\ wait > 0
    /\ Len(calls) >= 2
    /\ Len(invoked) = 1
    /\ invoked[1].via = "call"
    /\ timer = Stopped
    /\ now > calls[Len(calls)].t + wait

----------------------------------------------------------------------------
----------------------------------------------------------------------------
C17Case == leading /\ wait > 0 /\ maxWait = 0 /\ resets = 0 /\ ActionBound

\* C17: leading enabled, wait > 0, no max-wait, no Reset, a function bound
\* from the first call on: two dispatches are at least wait apart.
C17_LeadingSpacing ==
    C17Case =>
        \A i \in DOMAIN invoked : \A j \in DOMAIN invoked :
            i < j => invoked[j].t - invoked[i].t >= wait

----------------------------------------------------------------------------
\* The k-th call comes in a quiet period: the call before it has been
\* invoked, so nothing is pending, and every invocation so far is more than
\* maxWait before it.
QuietPeriod(k) ==
    /\ k > 1
    /\ InvokedAt(k - 1) # {}
    /\ \A i \in InvokedIn(1, k - 1) : calls[k].t - invoked[i].t > maxWait

\* C18: single-timer Debouncer, trailing only, maxWait > wait > 0, no Reset:
\* a call that comes in a quiet period is not invoked before wait has passed
\* after it.
C18_QuietCallWaits ==
    (~leading /\ trailing /\ wait > 0 /\ maxWait > wait /\ resets = 0) =>
        \A k \in DOMAIN calls :
            QuietPeriod(k) =>
                \A i \in InvokedAt(k) : invoked[i].t >= calls[k].t + wait

----------------------------------------------------------------------------
\* C19: single-timer Debouncer, trailing enabled, maxWait > wait > 0: while
\* the pending burst that a call started at burstStart has been followed
\* neither by an invocation nor by a Reset, the clock is not past
\* burstStart + maxWait.
C19_SingleMaxWaitBound ==
    (trailing /\ wait > 0 /\ maxWait > wait /\ dirty /\ burstStart # Stopped)
        => now <= burstStart + maxWait

----------------------------------------------------------------------------
\* C20: legacy NewMutable: cancel cancels any pending invocation: after a
\* cancel nothing is dispatched until debounced is called again.
C20_CancelCancels ==
    \A i \in DOMAIN invoked : ~invoked[i].fresh

----------------------------------------------------------------------------
\* C21: the debouncer does not serialise the executions of the function:
\* while an execution is running, a call that passes the leading-edge test
\* dispatches, and so does a started timer function that finds the
\* debouncer pending.
C21_NotSerialised ==
    (running > 0 /\ fn # Nil) =>
        /\ (leading /\ ExceededWait(now) /\ Len(calls) < MaxCalls /\ now <= MaxTime)
              => ENABLED (Debounce /\ invoked' # invoked)
        /\ (dirty /\ \E id \in TimerIds : expired[id] > 0)
              => ENABLED (CallbackSome /\ invoked' # invoked)

\* The leading invocation is still running when the trailing one of the
\* same burst is dispatched.
C21_Witness ==
    /\ leading /\ trailing
    /\ Len(calls) = 2
    /\ Len(invoked) = 2
    /\ invoked[1].via = "call"
    /\ invoked[2].via = "timer"
    /\ running = 2

----------------------------------------------------------------------------
\* C22: wait > 0: every invocation dispatched by a timer function comes at
\* least wait after the most recent call, or at least maxWait after a call
\* of the pending burst.
C22_TimerDispatchDue ==
    wait > 0 =>
        \A i \in DOMAIN invoked :
            ByTimer(i) =>
                \/ invoked[i].t - calls[invoked[i].k].t >= wait
                \/ /\ maxWait > 0
                   /\ \E k \in 1..invoked[i].k :
                         invoked[i].t - calls[k].t >= maxWait

----------------------------------------------------------------------------
\* C23: trailing only, maxWait > wait > 0, no Reset: when the wait timer
\* and the max-wait timer have both expired for one pending burst before
\* either timer function got the mutex, the two dispatch once between
\* them: no two timer dispatches, one by each timer, happen at one instant.
C23_OneOfTwoExpiries ==
    (wait > 0 /\ maxWait > 0 /\ ~leading /\ resets = 0) =>
        \A i \in DOMAIN invoked : \A j \in DOMAIN invoked :
            ~ /\ i < j
              /\ ByTimer(i) /\ ByTimer(j)
              /\ invoked[i].via # invoked[j].via
              /\ invoked[i].t = invoked[j].t

----------------------------------------------------------------------------
\* A timer is armed, or has expired with its function still to run.
Armed(id) == (IF id = "timer" THEN timer ELSE maxTimer) # Stopped

TimerPending == \E id \in TimerIds : Armed(id) \/ expired[id] > 0

\* C24: wait > 0: dirty is true if and only if one of the two timers is
\* armed with a pending invocation.
C24_DirtyIffArmed ==
    wait > 0 =>
        /\ dirty => TimerPending
        /\ (\E id \in TimerIds : Armed(id)) => dirty

----------------------------------------------------------------------------
\* C25: the max-wait timer is armed only by a call that changes dirty from
\* false to true, only if maxWait > 0, and for the time of that call plus
\* maxWait; a call made while dirty is true leaves the max-wait deadline
\* unchanged.
C25_MaxTimerArmedOnce ==
    [][/\ (maxTimer' # maxTimer /\ maxTimer' # Stopped) =>
             /\ Len(calls') = Len(calls) + 1
             /\ ~dirty /\ dirty'
             /\ maxWait > 0
             /\ maxTimer' = now + maxWait
       /\ (Len(calls') = Len(calls) + 1 /\ dirty) => maxTimer' = maxTimer]_vars

\* A second call of a burst re-armed the wait timer and left the max-wait
\* deadline at the first call plus maxWait.
C25_Witness ==
    /\ maxWait > 0
    /\ dirty
    /\ Len(calls) = 2
    /\ calls[2].t > calls[1].t
    /\ invoked = <<>>
    /\ maxTimer = calls[1].t + maxWait
    /\ timer = calls[2].t + wait

----------------------------------------------------------------------------
\* C26: leading only (trailing disabled), wait > 0, with or without
\* max-wait: no call arms a timer, and every invocation is dispatched
\* inside a call, none by a timer function.
C26_LeadingOnlyNoTimer ==
    (leading /\ ~trailing /\ wait > 0) =>
        /\ timer = Stopped
        /\ maxTimer = Stopped
        /\ \A i \in DOMAIN invoked : invoked[i].via = "call"

----------------------------------------------------------------------------
\* The invocations dispatched before the k-th call.
InvokedBefore(k) == {i \in DOMAIN invoked : invoked[i].k < k}

\* C27: leading enabled, maxWait > wait > 0, no Reset: a call that comes at
\* least maxWait after the last invocation dispatches inside the call,
\* also when less than wait has elapsed since the previous call.
C27_LeadingMaxWait ==
    (leading /\ wait > 0 /\ maxWait > wait /\ resets = 0) =>
        \A k \in DOMAIN calls :
            ( /\ InvokedBefore(k) # {}
              /\ \A i \in InvokedBefore(k) : calls[k].t - invoked[i].t >= maxWait )
            => \E i \in InvokedAt(k) : invoked[i].via = "call"

----------------------------------------------------------------------------
\* The k-th call dispatched inside the call.
DispatchedInCall(k) == \E i \in InvokedAt(k) : invoked[i].via = "call"

\* At least wait has elapsed at the k-th call since the call before it and
\* since every invocation dispatched before it.
WaitElapsed(k) ==
    /\ k > 1
    /\ Gap(k) >= wait
    /\ \A i \in InvokedBefore(k) : calls[k].t - invoked[i].t >= wait

\* C28: leading enabled, wait > 0, no max-wait, a function bound: a call
\* dispatches inside the call if and only if it is the first call since
\* construction or the last Reset, or at least wait has elapsed since both
\* the previous call and the previous invocation; and lastCall is the time
\* of the latest call whichever branch that call took.
C28_LeadingIff ==
    (leading /\ wait > 0 /\ maxWait = 0) =>
        /\ \A k \in DOMAIN calls :
              DispatchedInCall(k) <=> (calls[k].fresh \/ WaitElapsed(k))
        /\ ~fresh => lastCall = calls[Len(calls)].t

\* Calls less than wait apart keep the leading edge suppressed: the third
\* call comes wait after the only invocation and does not dispatch.
C28_Witness ==
    /\ leading /\ ~trailing /\ maxWait = 0
    /\ resets = 0
    /\ Len(calls) = 3
    /\ Len(invoked) = 1
    /\ DispatchedInCall(1)
    /\ calls[3].t - invoked[1].t >= wait
    /\ Gap(3) < wait

----------------------------------------------------------------------------
\* C29: wait > 0: a call that dispatches on the leading edge arms neither
\* timer and leaves dirty unchanged; of the fields of the Debouncer it
\* writes lastInvoke and lastCall, and fn when it passes a function.
C29_LeadingFrame ==
    [][(wait > 0 /\ Len(calls') = Len(calls) + 1 /\ invoked' # invoked) =>
          /\ timer' = timer
          /\ maxTimer' = maxTimer
          /\ dirty' = dirty
          /\ expired' = expired
          /\ config' = config
          /\ lastInvoke' = now
          /\ lastCall' = now
          /\ fn' = NextFn(calls'[Len(calls')].f)]_vars

\* A call that passed a new function dispatched it on the leading edge
\* while an earlier burst was pending with both timers armed.
C29_Witness ==
    /\ wait > 0
    /\ dirty
    /\ timer # Stopped
    /\ maxTimer # Stopped
    /\ Len(calls) = 3
    /\ calls[3].f # Nil
    /\ Len(invoked) = 2
    /\ invoked[2].via = "call"
    /\ invoked[2].k = 3
    /\ invoked[2].f = calls[3].f

----------------------------------------------------------------------------
\* The latest invocation dispatched before the k-th call.
LastInvokedBefore(k) ==
    CHOOSE i \in InvokedBefore(k) : \A j \in InvokedBefore(k) : j <= i

\* The clock read by the k-th call is earlier than the time of the call
\* before it or than the time of the latest invocation before it.
ClockWentBack(k) ==
    /\ k > 1
    /\ \/ Gap(k) < 0
       \/ /\ InvokedBefore(k) # {}
          /\ calls[k].t < invoked[LastInvokedBefore(k)].t

C31_LastInvokeWrites ==
    [][/\ resets' # resets => (lastInvoke' = ZeroTime /\ invoked' = invoked)
       /\ resets' = resets =>
             /\ Len(invoked') \in {Len(invoked), Len(invoked) + 1}
             /\ Len(invoked') = Len(invoked) + 1 =>
                   /\ ~mux
                   /\ lastInvoke' = now
                   /\ invoked'[Len(invoked')].t = lastInvoke'
             /\ Len(invoked') = Len(invoked) => lastInvoke' = lastInvoke
             /\ fn' = Nil => lastInvoke' = lastInvoke]_vars

\* A call found no function bound and tried to invoke; a later call bound
\* one, and lastInvoke is the time of the last dispatch.
C31_Witness ==
    /\ initFn = Nil
    /\ Disabled \/ leading
    /\ Len(calls) >= 2 /\ calls[1].f = Nil
    /\ invoked # <<>>
    /\ lastInvoke = invoked[Len(invoked)].t
    /\ lastInvoke > calls[1].t

\* ------------------------------------------------------------------ C32
\* No function was given to the constructor and no call has passed one.
NoneSupplied == initFn = Nil /\ \A k \in DOMAIN calls : calls[k].f = Nil

\* A started timer function got the mutex and ran callback.
HandlerRan == \E id \in TimerIds : expired'[id] = expired[id] - 1

\* C32: while no function has been supplied, no step dispatches anything or
\* keeps the mutex, lastInvoke stays the zero time, and the expiry handler
\* that finds a burst pending leaves the debouncer idle: dirty false and
\* both timers disarmed.
C32_UnboundIsNoOp ==
    [][NoneSupplied' =>
          /\ invoked' = <<>>
          /\ lastInvoke' = ZeroTime
          /\ ~mux'
          /\ (HandlerRan /\ dirty) =>
                (~dirty' /\ timer' = Stopped /\ maxTimer' = Stopped)]_vars

\* One call without a function armed both timers; the wait timer's handler
\* has run before the max-wait deadline and left nothing pending.
C32_Witness ==
    /\ NoneSupplied /\ resets = 0
    /\ wait > 0 /\ ~leading /\ maxWait > 0
    /\ Len(calls) = 1
    /\ now >= calls[1].t + wait /\ now < calls[1].t + maxWait
    /\ ~dirty /\ timer = Stopped /\ maxTimer = Stopped
    /\ \A id \in TimerIds : expired[id] = 0
    /\ invoked = <<>> /\ lastInvoke = ZeroTime

\* ------------------------------------------------------------------ C33
\* C33 as stated: with debouncing enabled, a function passed by a call is
\* dispatched at most once (in this model no two calls pass the same
\* function, so none is supplied again).
C33_AsStated ==
    wait > 0 =>
        \A i, j \in DOMAIN invoked :
            (i < j /\ invoked[i].f \in Fns) => invoked[j].f # invoked[i].f

\* C33: a function passed by a call stays bound after it has been
\* dispatched, until a later call passes another one: every dispatch, by the
\* expiry handler or inside a call, runs the function most recently passed,
\* so a call without a function that leads to a dispatch runs again the
\* function that is bound, and a function is never dispatched once a later
\* call has passed another.
C33_BoundUntilReplaced ==
    \A i \in DOMAIN invoked :
        /\ invoked[i].f = LastSupplied(invoked[i].k)
        /\ \A k \in 1..invoked[i].k :
              (calls[k].f # Nil /\ \E m \in (k + 1)..invoked[i].k : calls[m].f # Nil)
                 => invoked[i].f # calls[k].f

\* A function was dispatched, and dispatched again for a later call that
\* passed no function.
C33_Witness ==
    \E i, j \in DOMAIN invoked :
        /\ wait > 0 /\ resets = 0
        /\ ByTimer(i) /\ ByTimer(j)
        /\ i < j
        /\ invoked[i].f \in Fns
        /\ invoked[j].f = invoked[i].f
        /\ invoked[j].k > invoked[i].k
        /\ calls[invoked[j].k].f = Nil

\* ------------------------------------------------------------------ C34
\* C34: with the leading edge enabled and wait > 0, a call that passes a
\* function and dispatches inside the call runs the function it passed, not
\* one bound by an earlier call or by the constructor.
C34_LeadingRunsOwn ==
    (leading /\ wait > 0) =>
        \A i \in DOMAIN invoked :
            (invoked[i].via = "call" /\ calls[invoked[i].k].f # Nil)
                => invoked[i].f = calls[invoked[i].k].f

\* The second leading hit ran its own function although the first call had
\* bound another one.
C34_Witness ==
    /\ leading /\ wait > 0
    /\ \E i \in DOMAIN invoked :
          /\ invoked[i].via = "call"
          /\ invoked[i].k >= 2
          /\ calls[invoked[i].k].f # Nil
          /\ calls[invoked[i].k - 1].f # Nil
          /\ invoked[i].f = calls[invoked[i].k].f
          /\ InvokedAt(invoked[i].k - 1) # {}

\* ------------------------------------------------------------------ C35
\* C35: in the Debouncer with an atomic function, a dispatch by the expiry
\* handler runs the function of the call admitted last under the mutex, the
\* call that last re-armed the wait timer.
C35_AdmittedLastWins ==
    \A i \in DOMAIN invoked :
        ByTimer(i) => invoked[i].f = calls[invoked[i].k].f

\* ------------------------------------------------------------------ C36
\* The dispatches made before call m + 1 was made.
DispatchedUpTo(m) == {i \in DOMAIN invoked : invoked[i].k <= m}

\* C36: at any time there are no more dispatches than calls made so far, and
\* this held when each of the calls was made: the dispatches can be
\* attributed to distinct calls, each to a call made no later than it.
C36_NoMoreThanCalls ==
    /\ Len(invoked) <= Len(calls)
    /\ \A m \in 0..Len(calls) : Cardinality(DispatchedUpTo(m)) <= m

\* Every call made has been matched by a dispatch, some of them by a timer
\* and some inside a call.
C36_Witness ==
    /\ wait > 0
    /\ Len(calls) = MaxCalls
    /\ Len(invoked) = Len(calls)
    /\ \E i \in DOMAIN invoked : ByTimer(i)
    /\ \E i \in DOMAIN invoked : invoked[i].via = "call"

\* ------------------------------------------------------------------ C37
\* The calls made so far keep a trailing-only debouncer without max-wait
\* waiting: no Reset, every call less than wait after the one before it, and
\* the clock less than wait past the last one.
Starving ==
    /\ TrailingOnly /\ ActionBound /\ resets = 0
    /\ \A k \in 2..Len(calls) : Gap(k) < wait
    /\ now < calls[Len(calls)].t + wait

\* C37: a trailing-only debouncer without max-wait dispatches nothing for as
\* long as calls keep coming less than wait apart, however many they are and
\* however long ago the first one was made; and the wait timer is then armed
\* for wait after the last call and the mutex is free, so one more such call
\* is admitted and starves it further.
C37_Starvation ==
    Starving =>
        /\ invoked = <<>>
        /\ dirty
        /\ timer = calls[Len(calls)].t + wait
        /\ maxTimer = Stopped
        /\ ~mux

\* As many calls as the bound allows, and the clock is past the time at which
\* the first call alone would have been followed by a dispatch.
C37_Witness ==
    /\ Starving
    /\ Len(calls) = MaxCalls
    /\ now > calls[1].t + wait
    /\ invoked = <<>>

\* ------------------------------------------------------------------ C38
\* C38: the timer function of the legacy NewMutable never starts a nil
\* function, whatever debounced and cancel calls were made.
C38_NoNilDispatch ==
    \A i \in DOMAIN invoked : invoked[i].f # Nil
====
